---- MODULE Spec2Model ----
(***************************************************************************)
(* The simulation control state machine of ai-simulator: class Simulator   *)
(* (start / runSimulation / runIteration / stop / pause / resume), with    *)
(* the operator prompt, the environment-event fetch and the logger flush   *)
(* as asynchronous operations whose completions are separate steps.        *)
(***************************************************************************)
EXTENDS Naturals, Sequences, FiniteSets

VARIABLES
    isRunning,      \* Simulator.isRunning
    isPaused,       \* Simulator.isPaused
    trace,          \* what was emitted so far, in order: simulatorLogger.log records and console.log lines
    prompts,        \* rl.question calls whose callback has not run yet
    fetches,        \* getNextEnvironmentEvent() promises not yet settled
    fetchCalls,     \* getNextEnvironmentEvent() calls made so far
    flushing,       \* stop() calls suspended at `await simulatorLogger.stopLogWriter()`
    flushed,        \* stop() calls whose stopLogWriter() resolved, continuation not yet run
    exitStatus,     \* <<>> while the process lives, <<code>> once process.exit(code) ran
    answers,        \* the lines the prompt callbacks have received, in order
    haltedByPause,  \* the last runIteration() returned at its isPaused check
    given,          \* the options the caller passes to the constructor
    options,        \* Simulator.options: <<>> before the constructor ran, <<resolved options>> after
    describing,     \* describeEnvironment() calls suspended at `await AI.llm(...)`
    returned        \* what the describeEnvironment() calls returned, in order

vars == <<isRunning, isPaused, trace, prompts, fetches, fetchCalls,
          flushing, flushed, exitStatus, answers, haltedByPause,
          given, options, describing, returned>>

\* Bounds of the model: start(), stop(), pause() and resume() are called from
\* outside only while fewer than MaxTrace entries were emitted, and the
\* operator answers at most MaxAnswers prompts; describeEnvironment() is
\* called at most MaxDescribe times.
MaxTrace == 5
MaxAnswers == 4
MaxDescribe == 1

\* What the operator may type: the four recognised answers and one other line.
Inputs == {"q", "Q", "x", "X", "y"}

\* The records and lines the controller emits.
StartRec  == [sink |-> "simulatorLogger", event |-> "SIMULATOR_START",  message |-> "started"]
StopRec   == [sink |-> "simulatorLogger", event |-> "SIMULATOR_STOP",   message |-> "stopped"]
PauseRec  == [sink |-> "simulatorLogger", event |-> "SIMULATOR_PAUSE",  message |-> "paused"]
ResumeRec == [sink |-> "simulatorLogger", event |-> "SIMULATOR_RESUME", message |-> "resumed"]
IterRec   == [sink |-> "simulatorLogger", event |-> "SYSTEM_LOG",       message |-> "Running iteration"]
EventOut  == [sink |-> "console",         event |-> "none",             message |-> "Generated event"]

\* What AI.llm may answer, and what it may fail with.
Completions == {"a grid of cells", "nothing to see"}

Errors == {"llm unavailable"}

\* The records and lines of describeEnvironment(): the SYSTEM_LOG record with
\* the environment and its description; on failure the console.error line
\* and the SYSTEM_LOG record with the error.
DescribeRec(environment, description) ==
    [sink |-> "simulatorLogger", event |-> "SYSTEM_LOG",
     message |-> "Describing the environment.",
     data |-> [environment |-> environment, description |-> description]]

ErrorOut(error) ==
    [sink |-> "console", event |-> "none",
     message |-> "Error describing the environment:", data |-> [error |-> error]]

ErrorRec(error) ==
    [sink |-> "simulatorLogger", event |-> "SYSTEM_LOG",
     message |-> "Error describing the environment.", data |-> [error |-> error]]

(***************************************************************************)
(* The options. A field of the caller's options is <<>> when the caller    *)
(* left it out and <<v>> when the caller gave v; name and environment are  *)
(* always given. godEventProbability, spawnRate and temperature are        *)
(* counted in tenths (1 is 0.1).                                           *)
(***************************************************************************)
DefaultDescription == "a generic simulation with nothing special"
DefaultIterations == 1000
DefaultNumSentients == 10
DefaultNumNonSentients == 10
DefaultMaxPopulationSize == 100
DefaultGodEventProbability == 1
DefaultSpawnRate == 1
DefaultVerbose == FALSE
DefaultTemperature == 5
DefaultMode == "normal"
DefaultData == <<>>

\* JavaScript's `field || fallback`: the fallback replaces a field left out
\* and a field given as a falsy value (0, "", false); an array is never falsy.
OrNumber(field, fallback) ==
    IF field = <<>> THEN fallback ELSE IF field[1] = 0 THEN fallback ELSE field[1]

OrString(field, fallback) ==
    IF field = <<>> THEN fallback ELSE IF field[1] = "" THEN fallback ELSE field[1]

OrBoolean(field, fallback) ==
    IF field = <<>> THEN fallback ELSE IF field[1] = FALSE THEN fallback ELSE field[1]

OrArray(field, fallback) == IF field = <<>> THEN fallback ELSE field[1]

\* initOptionsWithDefaults(options)
initOptionsWithDefaults(o) ==
    [name                |-> o.name,
     description         |-> OrString(o.description, DefaultDescription),
     iterations          |-> OrNumber(o.iterations, DefaultIterations),
     numSentients        |-> OrNumber(o.numSentients, DefaultNumSentients),
     numNonSentients     |-> OrNumber(o.numNonSentients, DefaultNumNonSentients),
     maxPopulationSize   |-> OrNumber(o.maxPopulationSize, DefaultMaxPopulationSize),
     godEventProbability |-> OrNumber(o.godEventProbability, DefaultGodEventProbability),
     spawnRate           |-> OrNumber(o.spawnRate, DefaultSpawnRate),
     verbose             |-> OrBoolean(o.verbose, DefaultVerbose),
     temperature         |-> OrNumber(o.temperature, DefaultTemperature),
     mode                |-> OrString(o.mode, DefaultMode),
     data                |-> OrArray(o.data, DefaultData),
     environment         |-> o.environment]

\* The options with only name and environment given.
Minimal(name, environment) ==
    [name |-> name, environment |-> environment, description |-> <<>>,
     iterations |-> <<>>, numSentients |-> <<>>, numNonSentients |-> <<>>,
     maxPopulationSize |-> <<>>, godEventProbability |-> <<>>, spawnRate |-> <<>>,
     verbose |-> <<>>, temperature |-> <<>>, mode |-> <<>>, data |-> <<>>]

\* The options of the runs: the minimal ones, and the same with a small
\* number of iterations asked for.
FewIterations == 2

RunOptions ==
    {Minimal("T1", "grid"),
     [Minimal("T1", "grid") EXCEPT !.iterations = <<FewIterations>>]}

\* The controller's mutable state as one value, so that a method is a function
\* from the state before the call to the state after it.
State ==
    [isRunning |-> isRunning, isPaused |-> isPaused, trace |-> trace,
     prompts |-> prompts, fetches |-> fetches, fetchCalls |-> fetchCalls,
     flushing |-> flushing, flushed |-> flushed, exitStatus |-> exitStatus,
     answers |-> answers, haltedByPause |-> haltedByPause,
     options |-> options, describing |-> describing, returned |-> returned]

\* How often rec occurs in the sequence t.
CountIn(t, rec) == Cardinality({i \in DOMAIN t : t[i] = rec})

\* simulatorLogger.log(record) / console.log(line): one more entry of the trace.
log(s, rec) == [s EXCEPT !.trace = Append(@, rec)]

\* getRunningState(): isRunning && !isPaused
getRunningState(s) == s.isRunning /\ ~s.isPaused

\* runIteration(): returns at once when paused; otherwise logs the iteration
\* and opens the operator prompt (rl.question). It has no await: it runs to
\* the end within the step that calls it.
runIteration_NoPauseCheck(s) ==
    [log(s, IterRec) EXCEPT !.prompts = @ + 1, !.haltedByPause = FALSE]

runIteration_PauseStops(s) ==
    IF s.isPaused
    THEN [s EXCEPT !.haltedByPause = TRUE, !.isRunning = FALSE]
    ELSE [log(s, IterRec) EXCEPT !.prompts = @ + 1, !.haltedByPause = FALSE]

runIteration_Capped(s) ==
    IF s.isPaused \/ CountIn(s.trace, IterRec) >= s.options[1].iterations
    THEN [s EXCEPT !.haltedByPause = s.isPaused]
    ELSE [log(s, IterRec) EXCEPT !.prompts = @ + 1, !.haltedByPause = FALSE]

runIteration(s) ==
    IF s.isPaused
    THEN [s EXCEPT !.haltedByPause = TRUE]
    ELSE [log(s, IterRec) EXCEPT !.prompts = @ + 1, !.haltedByPause = FALSE]

\* runSimulation(): one iteration if getRunningState()
runSimulation(s) == IF getRunningState(s) THEN runIteration(s) ELSE s

\* start(): isRunning = true, SIMULATOR_START, runSimulation(). No guard.
start_LogAfterRun(s) ==
    log(runSimulation([s EXCEPT !.isRunning = TRUE]), StartRec)

start(s) == runSimulation(log([s EXCEPT !.isRunning = TRUE], StartRec))

\* stop(), up to its await: isRunning = false, SIMULATOR_STOP, and the call
\* to stopLogWriter() whose promise the rest of stop() waits for.
stop_NoAwait(s) ==
    [log([s EXCEPT !.isRunning = FALSE], StopRec) EXCEPT !.exitStatus = <<0>>]

stop_NoRecord(s) ==
    [s EXCEPT !.isRunning = FALSE, !.flushing = @ + 1]

stop(s) ==
    [log([s EXCEPT !.isRunning = FALSE], StopRec) EXCEPT !.flushing = @ + 1]

\* stop(), after its await: process.exit(0).
stopExit(s) == [s EXCEPT !.flushed = @ - 1, !.exitStatus = <<0>>]

\* pause(): isPaused = true, SIMULATOR_PAUSE.
pause_ClearsRunning(s) ==
    log([s EXCEPT !.isPaused = TRUE, !.isRunning = FALSE], PauseRec)

pause(s) == log([s EXCEPT !.isPaused = TRUE], PauseRec)

\* resume(): isPaused = false, SIMULATOR_RESUME. It does not call runSimulation().
resume(s) == log([s EXCEPT !.isPaused = FALSE], ResumeRec)

\* The rl.question callback, called with the operator's line: 'q'/'Q' calls
\* stop(), 'x'/'X' requests the next environment event, any other line does
\* neither; then rl.close().
questionCallback_FetchOnQuit(s, answer) ==
    LET s0 == [s EXCEPT !.answers = Append(@, answer)]
        s1 == IF answer = "q" \/ answer = "Q"
              THEN [stop(s0) EXCEPT !.fetches = @ + 1, !.fetchCalls = @ + 1]
              ELSE IF answer = "x" \/ answer = "X"
                   THEN [s0 EXCEPT !.fetches = @ + 1, !.fetchCalls = @ + 1]
                   ELSE s0
    IN  [s1 EXCEPT !.prompts = @ - 1]

questionCallback_AnyLineContinues(s, answer) ==
    LET s0 == [s EXCEPT !.answers = Append(@, answer)]
        s1 == IF answer = "q" \/ answer = "Q"
              THEN stop(s0)
              ELSE [s0 EXCEPT !.fetches = @ + 1, !.fetchCalls = @ + 1]
    IN  [s1 EXCEPT !.prompts = @ - 1]

questionCallback(s, answer) ==
    LET s0 == [s EXCEPT !.answers = Append(@, answer)]
        s1 == IF answer = "q" \/ answer = "Q"
              THEN stop(s0)
              ELSE IF answer = "x" \/ answer = "X"
                   THEN [s0 EXCEPT !.fetches = @ + 1, !.fetchCalls = @ + 1]
                   ELSE s0
    IN  [s1 EXCEPT !.prompts = @ - 1]

\* The continuation of getNextEnvironmentEvent(): console.log the event, then
\* runIteration().
fetchThen_LogAfter(s) == log(runIteration([s EXCEPT !.fetches = @ - 1]), EventOut)

fetchThen(s) == runIteration(log([s EXCEPT !.fetches = @ - 1], EventOut))

\* A rejected getNextEnvironmentEvent(): the .then callback is skipped and
\* nothing catches the rejection.
fetchRejected(s) == [s EXCEPT !.fetches = @ - 1]

\* describeEnvironment(), up to its await: the call of AI.llm.
describeEnvironment(s) == [s EXCEPT !.describing = @ + 1]

\* describeEnvironment(), after AI.llm resolved with nlDescription: the
\* SYSTEM_LOG record, and nlDescription is returned.
describeResolved(s, nlDescription) ==
    [log(s, DescribeRec(s.options[1].environment, nlDescription))
        EXCEPT !.describing = @ - 1, !.returned = Append(@, nlDescription)]

\* describeEnvironment(), after AI.llm failed with error: console.error, the
\* SYSTEM_LOG error record, and "" is returned.
describeFailed_ReturnsError(s, error) ==
    [log(log(s, ErrorOut(error)), ErrorRec(error))
        EXCEPT !.describing = @ - 1, !.returned = Append(@, error)]

describeFailed(s, error) ==
    [log(log(s, ErrorOut(error)), ErrorRec(error))
        EXCEPT !.describing = @ - 1, !.returned = Append(@, "")]

\* The state after a step is s.
Becomes(s) ==
    /\ isRunning' = s.isRunning
    /\ isPaused' = s.isPaused
    /\ trace' = s.trace
    /\ prompts' = s.prompts
    /\ fetches' = s.fetches
    /\ fetchCalls' = s.fetchCalls
    /\ flushing' = s.flushing
    /\ flushed' = s.flushed
    /\ exitStatus' = s.exitStatus
    /\ answers' = s.answers
    /\ haltedByPause' = s.haltedByPause
    /\ describing' = s.describing
    /\ returned' = s.returned
    /\ UNCHANGED <<given, options>>

exited == exitStatus # <<>>

\* The state after construction with one of the options of `configs`: nothing
\* runs, nothing is logged.
Constructed(configs) ==
    /\ isRunning = FALSE
    /\ isPaused = FALSE
    /\ trace = <<>>
    /\ prompts = 0
    /\ fetches = 0
    /\ fetchCalls = 0
    /\ flushing = 0
    /\ flushed = 0
    /\ exitStatus = <<>>
    /\ answers = <<>>
    /\ haltedByPause = FALSE
    /\ given \in configs
    /\ options = <<initOptionsWithDefaults(given)>>
    /\ describing = 0
    /\ returned = <<>>

Init == Constructed({Minimal("T1", "grid")})

\* Calls from outside the iteration sequence.
MayCall == ~exited /\ Len(trace) < MaxTrace

Start == MayCall /\ Becomes(start(State))

Stop == MayCall /\ Becomes(stop(State))

Pause == MayCall /\ Becomes(pause(State))

Resume == MayCall /\ Becomes(resume(State))

DescribeEnvironment ==
    /\ MayCall
    /\ describing + Len(returned) < MaxDescribe
    /\ Becomes(describeEnvironment(State))

\* AI.llm of one suspended describeEnvironment() call resolves with nlDescription.
DescribeResolvedWith(nlDescription) ==
    ~exited /\ describing > 0 /\ Becomes(describeResolved(State, nlDescription))

DescribeResolved == \E nlDescription \in Completions : DescribeResolvedWith(nlDescription)

\* AI.llm of one suspended describeEnvironment() call fails with error.
DescribeFailedWith(error) ==
    ~exited /\ describing > 0 /\ Becomes(describeFailed(State, error))

DescribeFailed == \E error \in Errors : DescribeFailedWith(error)

\* The operator answers an open prompt with the line `answer`.
AnswerWith(answer) ==
    /\ ~exited
    /\ prompts > 0
    /\ Len(answers) < MaxAnswers
    /\ Becomes(questionCallback(State, answer))

Answer == \E answer \in Inputs : AnswerWith(answer)

\* An outstanding getNextEnvironmentEvent() resolves.
FetchResolved == ~exited /\ fetches > 0 /\ Becomes(fetchThen(State))

\* An outstanding getNextEnvironmentEvent() rejects.
FetchRejected == ~exited /\ fetches > 0 /\ Becomes(fetchRejected(State))

\* stopLogWriter() of one suspended stop() call resolves.
FlushResolved ==
    /\ ~exited
    /\ flushing > 0
    /\ Becomes([State EXCEPT !.flushing = @ - 1, !.flushed = @ + 1])

\* A stop() call resumes after its await and ends the process.
Exit == ~exited /\ flushed > 0 /\ Becomes(stopExit(State))

Next ==
    \/ Start
    \/ Stop
    \/ Pause
    \/ Resume
    \/ Answer
    \/ FetchResolved
    \/ FetchRejected
    \/ FlushResolved
    \/ Exit

Spec == Init /\ [][Next]_vars

\* The same with describeEnvironment() called from outside as well.
NextAll ==
    \/ Start
    \/ Stop
    \/ Pause
    \/ Resume
    \/ Answer
    \/ FetchResolved
    \/ FetchRejected
    \/ FlushResolved
    \/ Exit
    \/ DescribeEnvironment
    \/ DescribeResolved
    \/ DescribeFailed

SpecAll == Init /\ [][NextAll]_vars

\* describeEnvironment() among the calls from outside, with an operator who
\* never answers.
NextDescribe ==
    \/ Start
    \/ Stop
    \/ Pause
    \/ Resume
    \/ FlushResolved
    \/ Exit
    \/ DescribeEnvironment
    \/ DescribeResolved
    \/ DescribeFailed

SpecDescribe == Init /\ [][NextDescribe]_vars

\* One start() on the fresh controller.
StartOnce == trace = <<>> /\ Start

\* One start() on the fresh controller, constructed with few iterations asked
\* for or with none; then only the operator, the fetches (which all resolve)
\* and the flush act.
NextScripted ==
    \/ StartOnce
    \/ Answer
    \/ FetchResolved
    \/ FlushResolved
    \/ Exit

InitScripted == Constructed(RunOptions)

SpecScripted == InitScripted /\ [][NextScripted]_vars

(***************************************************************************)
(* Vocabulary of the properties.                                           *)
(***************************************************************************)

Count(rec) == CountIn(trace, rec)

\* This step emits at least one rec.
Emits(rec) == CountIn(trace', rec) > CountIn(trace, rec)

\* This step emits exactly one rec.
EmitsOne(rec) == CountIn(trace', rec) = CountIn(trace, rec) + 1

\* This step is a call of stop(): from outside, or by the operator's 'q'/'Q'.
StopCalled == Stop \/ AnswerWith("q") \/ AnswerWith("Q")

\* stop() calls made so far: those at the flush, those past it, and the one that exited.
StopCalls == flushing + flushed + (IF exited THEN 1 ELSE 0)

IsPrefix(a, b) == Len(a) <= Len(b) /\ \A i \in DOMAIN a : a[i] = b[i]

\* Entry i of the trace was emitted with the controller paused: a
\* SIMULATOR_PAUSE record precedes it with no SIMULATOR_RESUME in between.
EmittedPaused(i) ==
    \E j \in 1..(i - 1) :
        /\ trace[j] = PauseRec
        /\ \A k \in (j + 1)..(i - 1) : trace[k] # ResumeRec

\* The trace entry as the specification names it: the iteration record, the
\* report of a generated event, or the lifecycle event.
Label(e) ==
    IF e = IterRec THEN "SYSTEM_LOG(iter)"
    ELSE IF e = EventOut THEN "SYSTEM_LOG(event)"
    ELSE e.event

Labels == [i \in DOMAIN trace |-> Label(trace[i])]

(***************************************************************************)
(* C1. At most one asynchronous operation of the iteration loop is         *)
(* outstanding: open operator prompts plus unresolved                      *)
(* getNextEnvironmentEvent calls never exceed 1.                           *)
(* Fails: start() has no guard, so a second start() opens a second prompt. *)
(***************************************************************************)
C1_AtMostOneOutstanding == prompts + fetches <= 1

(***************************************************************************)
(* C2. start() while isRunning is already true has no effect: no further   *)
(* SIMULATOR_START, no new iteration record, no new prompt, flags          *)
(* unchanged.                                                              *)
(* Fails: start() logs and runs an iteration whatever isRunning is.        *)
(***************************************************************************)
C2_StartIdempotent == [][(isRunning /\ Start) => UNCHANGED vars]_vars

(***************************************************************************)
(* C3. resume() called while isRunning is true, after the loop halted on a *)
(* paused no-op iteration and with nothing in flight, begins a new         *)
(* iteration: an iteration record is emitted and the operator is prompted. *)
(* resume() is synchronous and leaves nothing scheduled, so an iteration   *)
(* that the resume() step does not begin is never begun by the controller. *)
(* Fails: resume() only clears isPaused and logs.                          *)
(***************************************************************************)
C3_ResumeReenters ==
    [][(Resume /\ isRunning /\ haltedByPause /\ prompts = 0 /\ fetches = 0)
         => (Emits(IterRec) /\ prompts' > 0)]_vars

(***************************************************************************)
(* C4. An iteration begins (iteration record, prompt opened) only while    *)
(* isRunning is true.                                                      *)
(* Fails: runIteration() tests isPaused only; a fetch that resolves after  *)
(* an outside stop() and before the process exits begins an iteration.     *)
(***************************************************************************)
C4_NoIterationOnceStopped == [][Emits(IterRec) => isRunning']_vars

C6_SecondStopQuiet ==
    [][(StopCalled /\ StopCalls > 0)
         => (/\ isRunning' = FALSE
             /\ ~Emits(IterRec)
             /\ prompts' <= prompts
             /\ fetches' = fetches
             /\ fetchCalls' = fetchCalls)]_vars

Fresh == ~isRunning /\ ~isPaused /\ trace = <<>>

C7_FreshStart ==
    /\ [][(Fresh /\ Start) => (isRunning' /\ trace' = <<StartRec, IterRec>>
                                /\ prompts' = 1)]_vars
    /\ [][Start => EmitsOne(StartRec)]_vars
    /\ [](\A i \in DOMAIN trace :
            trace[i] = IterRec => \E j \in 1..(i - 1) : trace[j] = StartRec)

C7_Witness == isRunning /\ trace = <<StartRec, IterRec>> /\ prompts = 1

(***************************************************************************)
(* C8 as stated: pause() then resume() emit one SIMULATOR_PAUSE and one    *)
(* SIMULATOR_RESUME, and between them no iteration record is emitted and   *)
(* no environment fetch is carried out, even with a prompt open at         *)
(* pause().                                                                *)
(* Fails: the open prompt stays open, and answering it 'x' requests the    *)
(* next event while paused.                                                *)
(***************************************************************************)
C8_PauseResumeRecords ==
    /\ [][Pause => (EmitsOne(PauseRec) /\ Len(trace') = Len(trace) + 1)]_vars
    /\ [][Resume => (EmitsOne(ResumeRec) /\ Len(trace') = Len(trace) + 1)]_vars
    /\ [](\A i \in DOMAIN trace : trace[i] = IterRec => ~EmittedPaused(i))

C8_Original ==
    /\ C8_PauseResumeRecords
    /\ [][(isRunning /\ isPaused) => (fetchCalls' = fetchCalls /\ ~Emits(EventOut))]_vars

(***************************************************************************)
(* C8 amended: pause() then resume() emit exactly one SIMULATOR_PAUSE and  *)
(* one SIMULATOR_RESUME record, in that order, and no iteration record is  *)
(* emitted between them; a prompt open at pause() is not cancelled, so its *)
(* answer can still request an environment event between the two records,  *)
(* and at most as many fetches are requested while paused as prompts were  *)
(* open.                                                                   *)
(***************************************************************************)
C8_PauseSuspendsIterations ==
    /\ C8_PauseResumeRecords
    /\ [][isPaused => (~Emits(IterRec) /\ prompts' <= prompts
                        /\ fetchCalls' - fetchCalls <= prompts - prompts')]_vars

C8_Witness ==
    \E i, j \in DOMAIN trace :
        /\ i < j
        /\ trace[i] = PauseRec
        /\ trace[j] = ResumeRec
        /\ \E k \in 1..(i - 1) : trace[k] = IterRec
        /\ \E m \in (i + 1)..(j - 1) : trace[m] = EventOut

(***************************************************************************)
(* C9 as stated: one start() and the answers x, x, q give the records      *)
(* START, SYSTEM_LOG(iter), SYSTEM_LOG(event 1), SYSTEM_LOG(iter),         *)
(* SYSTEM_LOG(event 2), STOP, exactly two fetch calls, and the exit after  *)
(* the STOP record.                                                        *)
(* Fails: the prompt that receives q belongs to a third iteration, which   *)
(* logged its record before prompting.                                     *)
(***************************************************************************)
XXQ == <<{"x", "X"}, {"x", "X"}, {"q", "Q"}>>

\* The answers so far are the first ones of x, x, q.
IsXXQPrefix == Len(answers) <= 3 /\ \A i \in DOMAIN answers : answers[i] \in XXQ[i]

IsXXQ == IsXXQPrefix /\ Len(answers) = 3

XXQTrace ==
    <<StartRec, IterRec, EventOut, IterRec, EventOut, IterRec, StopRec>>

QuitFirst == answers # <<>> /\ answers[1] \in {"q", "Q"}

C10_ScenarioQ ==
    QuitFirst =>
        /\ trace = <<StartRec, IterRec, StopRec>>
        /\ fetchCalls = 0
        /\ Len(answers) = 1
        /\ prompts = 0
        /\ fetches = 0
        /\ ~isRunning

C10_Witness == exited /\ answers = <<"Q">> /\ trace = <<StartRec, IterRec, StopRec>>

(***************************************************************************)
(* C11. getNextEnvironmentEvent is never called while an earlier call is   *)
(* unresolved, and an iteration begins only when the operator decision and *)
(* the fetch of the iteration before it have both completed: at most one   *)
(* fetch is outstanding, and a step that begins an iteration starts with   *)
(* no prompt open and ends with no fetch outstanding.                      *)
(* Fails: every start() begins an iteration chain of its own (C2), and the *)
(* chains prompt and fetch side by side.                                   *)
(***************************************************************************)
C11_FetchesOneAtATime ==
    /\ [](fetches <= 1)
    /\ [][fetchCalls' > fetchCalls => fetches = 0]_vars
    /\ [][Emits(IterRec) => (prompts = 0 /\ fetches' = 0)]_vars

(***************************************************************************)
(* C12. isRunning goes from false to true only in a start() step and from  *)
(* true to false only in a stop() step; pause(), resume(),                 *)
(* describeEnvironment(), a paused no-op iteration, a 'continue' answer    *)
(* and a fetch resolution leave it unchanged; pause() and resume() change  *)
(* nothing but isPaused and emit exactly one record each.                  *)
(***************************************************************************)
\* Everything but isPaused and the trace.
BesidesPauseFlag ==
    <<isRunning, prompts, fetches, fetchCalls, flushing, flushed, exitStatus,
      answers, haltedByPause, given, options, describing, returned>>

C12_RunStateFrame ==
    /\ [][(~isRunning /\ isRunning') => Start]_vars
    /\ [][(isRunning /\ ~isRunning') => StopCalled]_vars
    /\ [][(\/ Pause \/ Resume
           \/ DescribeEnvironment \/ DescribeResolved \/ DescribeFailed
           \/ FetchResolved \/ FetchRejected
           \/ AnswerWith("x") \/ AnswerWith("X") \/ AnswerWith("y"))
             => isRunning' = isRunning]_vars
    /\ [][Pause => (/\ isPaused'
                    /\ trace' = Append(trace, PauseRec)
                    /\ UNCHANGED BesidesPauseFlag)]_vars
    /\ [][Resume => (/\ ~isPaused'
                     /\ trace' = Append(trace, ResumeRec)
                     /\ UNCHANGED BesidesPauseFlag)]_vars

\* A running, paused controller whose loop ended on a paused no-op iteration
\* and whose describeEnvironment() call returned.
C12_Witness ==
    /\ isRunning /\ isPaused /\ haltedByPause
    /\ Count(PauseRec) = 1
    /\ Len(returned) = 1
    /\ fetchCalls = 1 /\ fetches = 0

(***************************************************************************)
(* C13. describeEnvironment() never lets a failure of the text-completion  *)
(* call out: on failure it emits exactly one SYSTEM_LOG record, carrying   *)
(* the error, and returns ""; on success it returns the completion         *)
(* unchanged and emits exactly one SYSTEM_LOG record holding the           *)
(* environment and the description; isRunning and isPaused stay as they    *)
(* were.                                                                   *)
(***************************************************************************)
\* The simulatorLogger records among the entries this step adds to the trace.
LoggedInStep ==
    {i \in (Len(trace) + 1)..Len(trace') : trace'[i].sink = "simulatorLogger"}

FlagsUnchanged == isRunning' = isRunning /\ isPaused' = isPaused

C13_DescribeNeverThrows ==
    /\ [][DescribeEnvironment => (FlagsUnchanged /\ trace' = trace)]_vars
    /\ [][\A d \in Completions :
            DescribeResolvedWith(d) =>
                /\ returned' = Append(returned, d)
                /\ trace' = Append(trace, DescribeRec(options[1].environment, d))
                /\ trace'[Len(trace')].data.environment = given.environment
                /\ FlagsUnchanged]_vars
    /\ [][\A e \in Errors :
            DescribeFailedWith(e) =>
                /\ returned' = Append(returned, "")
                /\ IsPrefix(trace, trace')
                /\ Cardinality(LoggedInStep) = 1
                /\ \A i \in LoggedInStep : trace'[i] = ErrorRec(e)
                /\ FlagsUnchanged]_vars
    /\ [](Cardinality({i \in DOMAIN trace :
                        /\ trace[i].sink = "simulatorLogger"
                        /\ trace[i].message \in {"Describing the environment.",
                                                 "Error describing the environment."}})
            = Len(returned))

C13_Witness ==
    /\ returned = <<"">>
    /\ trace[Len(trace)] = ErrorRec("llm unavailable")
    /\ isRunning /\ isPaused

(***************************************************************************)
(* C14. A failed getNextEnvironmentEvent does not interrupt the iteration  *)
(* sequence: the failure is caught where the call is made and logged as a  *)
(* SYSTEM_LOG record, and the run is not left running, not paused and with *)
(* no prompt and no fetch outstanding.                                     *)
(* Fails: the promise has a .then and no catch; nothing is logged and no   *)
(* iteration follows.                                                      *)
(***************************************************************************)
C14_FetchFailureHandled ==
    [][FetchRejected =>
         /\ \E i \in LoggedInStep : trace'[i].event = "SYSTEM_LOG"
         /\ ~(isRunning' /\ ~isPaused' /\ prompts' = 0 /\ fetches' = 0)]_vars

(***************************************************************************)
(* C15. Operator input is interpreted exactly: only 'x'/'X' requests an    *)
(* environment event, only 'q'/'Q' calls stop(); any other line does       *)
(* neither, leaves isRunning and isPaused unchanged, and the operator is   *)
(* prompted again.                                                         *)
(* Fails in its last part: the callback closes the prompt and schedules    *)
(* nothing for a line it does not recognise.                               *)
(***************************************************************************)
C15_InputInterpretedExactly ==
    [][\A a \in Inputs :
         AnswerWith(a) =>
            /\ (fetchCalls' > fetchCalls) <=> (a \in {"x", "X"})
            /\ (flushing' > flushing) <=> (a \in {"q", "Q"})
            /\ (a \notin {"x", "X", "q", "Q"}) =>
                  (FlagsUnchanged /\ prompts' >= prompts)]_vars

(***************************************************************************)
(* C17. An iteration invoked while isPaused is true is a no-op: it emits   *)
(* no record, opens no prompt, requests no event, schedules nothing and    *)
(* leaves isRunning and isPaused as they were; a fetch that completes      *)
(* after pause() prints its event and ends the chain of iterations.        *)
(***************************************************************************)
C17_PausedIterationNoOp ==
    /\ [](isPaused => runIteration(State) = [State EXCEPT !.haltedByPause = TRUE])
    /\ [][(FetchResolved /\ isPaused) =>
            /\ trace' = Append(trace, EventOut)
            /\ prompts' = prompts
            /\ fetches' = fetches - 1
            /\ fetchCalls' = fetchCalls
            /\ flushing' = flushing
            /\ haltedByPause'
            /\ FlagsUnchanged]_vars

C17_Witness ==
    /\ isRunning /\ isPaused /\ haltedByPause
    /\ prompts = 0 /\ fetches = 0
    /\ trace = <<StartRec, IterRec, PauseRec, EventOut>>

(***************************************************************************)
(* C19. Every environment fetch is caused by exactly one 'x'/'X' answer:   *)
(* the calls of getNextEnvironmentEvent made equal the 'x'/'X' answers     *)
(* received and never exceed the iterations begun, and an answer 'q'/'Q'   *)
(* or an unrecognised one makes no call.                                   *)
(***************************************************************************)
Continues == {i \in DOMAIN answers : answers[i] \in {"x", "X"}}

C19_FetchPerContinue ==
    /\ [](fetchCalls = Cardinality(Continues))
    /\ [](fetchCalls <= Count(IterRec) /\ Len(answers) <= Count(IterRec))
    /\ [][fetchCalls' # fetchCalls =>
            /\ AnswerWith("x") \/ AnswerWith("X")
            /\ fetchCalls' = fetchCalls + 1
            /\ fetches' = fetches + 1]_vars
    /\ [][\A a \in Inputs \ {"x", "X"} :
            AnswerWith(a) => (fetchCalls' = fetchCalls /\ fetches' = fetches)]_vars

C19_Witness ==
    /\ fetchCalls = 2
    /\ \E i, j \in DOMAIN answers : answers[i] = "y" /\ answers[j] = "Q"

(***************************************************************************)
(* Construction on its own, for every way of giving the options: each      *)
(* optional field is left out, given as its falsy value, or given as an    *)
(* ordinary value.                                                         *)
(***************************************************************************)
Optional(falsy, value) == {<<>>, <<falsy>>, <<value>>}

GivenOptions ==
    [name                : {"T1"},
     description         : Optional("", "a pond"),
     iterations          : Optional(0, 3),
     numSentients        : Optional(0, 3),
     numNonSentients     : Optional(0, 3),
     maxPopulationSize   : Optional(0, 3),
     godEventProbability : Optional(0, 3),
     spawnRate           : Optional(0, 3),
     verbose             : Optional(FALSE, TRUE),
     temperature         : Optional(0, 3),
     mode                : Optional("", "fast"),
     data                : Optional(<<>>, <<"d">>),
     environment         : {"grid"}]

\* Before the constructor has run: the options are given, none are resolved.
InitConfig ==
    /\ isRunning = FALSE
    /\ isPaused = FALSE
    /\ trace = <<>>
    /\ prompts = 0
    /\ fetches = 0
    /\ fetchCalls = 0
    /\ flushing = 0
    /\ flushed = 0
    /\ exitStatus = <<>>
    /\ answers = <<>>
    /\ haltedByPause = FALSE
    /\ given \in GivenOptions
    /\ options = <<>>
    /\ describing = 0
    /\ returned = <<>>

\* constructor(options)
Construct ==
    /\ options = <<>>
    /\ options' = <<initOptionsWithDefaults(given)>>
    /\ isRunning' = FALSE
    /\ isPaused' = FALSE
    /\ UNCHANGED <<trace, prompts, fetches, fetchCalls, flushing, flushed,
                   exitStatus, answers, haltedByPause, given, describing, returned>>

NextConfig == Construct

SpecConfig == InitConfig /\ [][NextConfig]_vars

(***************************************************************************)
(* C16. The resolved options are the given ones merged over the defaults:  *)
(* every optional field that was given, the values 0, false, "" and an     *)
(* empty data sequence included, keeps the given value; every field left   *)
(* out gets its default; name and environment are kept.                    *)
(* Fails: `||` replaces a given 0 and a given "" by the default.           *)
(***************************************************************************)
Merged(field, fallback) == IF field = <<>> THEN fallback ELSE field[1]

C16_MergeOverDefaults ==
    options # <<>> =>
        options[1] =
            [name                |-> given.name,
             description         |-> Merged(given.description, DefaultDescription),
             iterations          |-> Merged(given.iterations, DefaultIterations),
             numSentients        |-> Merged(given.numSentients, DefaultNumSentients),
             numNonSentients     |-> Merged(given.numNonSentients, DefaultNumNonSentients),
             maxPopulationSize   |-> Merged(given.maxPopulationSize, DefaultMaxPopulationSize),
             godEventProbability |-> Merged(given.godEventProbability, DefaultGodEventProbability),
             spawnRate           |-> Merged(given.spawnRate, DefaultSpawnRate),
             verbose             |-> Merged(given.verbose, DefaultVerbose),
             temperature         |-> Merged(given.temperature, DefaultTemperature),
             mode                |-> Merged(given.mode, DefaultMode),
             data                |-> Merged(given.data, DefaultData),
             environment         |-> given.environment]

(***************************************************************************)
(* C18. The iterations option never caps the run: with one start(), an     *)
(* operator who always answers x and fetches that always resolve, every    *)
(* resolved fetch begins the next iteration whatever the number already    *)
(* begun, so the iterations begun pass options.iterations; isRunning stays *)
(* true until stop() is called; and the loop comes to rest only after an   *)
(* answer q (stop) or an unrecognised answer.                              *)
(***************************************************************************)
AlwaysContinues == \A i \in DOMAIN answers : answers[i] \in {"x", "X"}

C18_IterationsNeverCap ==
    /\ [][FetchResolved => (Emits(IterRec) /\ prompts' = prompts + 1 /\ isRunning')]_vars
    /\ [][(isRunning /\ ~isRunning') => StopCalled]_vars
    /\ []((trace # <<>> /\ AlwaysContinues) =>
            /\ isRunning
            /\ prompts + fetches = 1
            /\ Count(IterRec) = Len(answers) + prompts)
    /\ []((trace # <<>> /\ prompts = 0 /\ fetches = 0) =>
            (answers # <<>> /\ answers[Len(answers)] \notin {"x", "X"}))

C18_Witness ==
    /\ given.iterations = <<FewIterations>>
    /\ AlwaysContinues
    /\ Count(IterRec) > options[1].iterations
    /\ isRunning /\ prompts = 1

====
